---- MODULE Spec2Model ----
(***************************************************************************)
(* Model of napari's label colormap machinery and of its icon build:       *)
(*   napari/util/colormaps/colormaps.py   (quasi-random colours)           *)
(*   napari/layers/_labels_layer/model.py (the Labels layer that uses it)  *)
(*   napari/resources/build_icons.py      (themed icons, Qt resources)     *)
(*                                                                         *)
(* Numbers.  The code computes in IEEE binary floating point.  The model   *)
(* keeps the structure of that arithmetic at a reduced width: a number is  *)
(* an integer count of quanta of 2^-FracBits, and the result of every      *)
(* floating point operation is rounded (to nearest, ties to even) to Prec  *)
(* significant bits.  Quanta below 2^Prec are all representable, as the    *)
(* subnormal and small numbers of the real format are.                     *)
(***************************************************************************)
EXTENDS Integers, Sequences, FiniteSets, TLC

VARIABLES
    gen,      \* the last call of _low_discrepancy: its arguments and outcome
    prev,     \* the call of _low_discrepancy before it (op = "none" if none)
    val,      \* the last call of _validate_rgb: its arguments and outcome
    cr,       \* a call of _color_random: its arguments, locals and position
    cmap,     \* a call of label_colormap, and a lookup in the colormap built
    hash,     \* calls of _low_discrepancy_image on an image and on one label
    layer,    \* a Labels layer: its fields, and the last label_color lookup
    session,  \* colormaps.py as imported: its module-level arrays, calls made
    icons,    \* a call of themify_icons: the folders it reads and writes
    rcc,      \* a call of build_pyqt_resources: its position and its files
    refresh   \* the refresh of a Labels layer: flags, call stack, visual node

colormapVars == <<gen, prev, val, cr, cmap, hash, layer>>
otherVars == <<session, icons, rcc, refresh>>
vars == <<gen, prev, val, cr, cmap, hash, layer, session, icons, rcc, refresh>>

(***************************************************************************)
(* Bounds of the model.                                                    *)
(***************************************************************************)
FracBits == 14      \* 1.0 is 2^FracBits quanta
Prec == 11          \* significand bits of a floating point number
MaxN == 3           \* largest n of a first call of _low_discrepancy
MaxK == 2           \* largest number of additional points of a second call
MaxRows == 3        \* largest number of colours given to _validate_rgb
ColorBits == 10     \* fraction bits of the fixed point colour conversions
MaxColors == 3      \* largest n of _color_random
MaxAttempts == 3    \* most iterations of _color_random's loop that are followed
MaxNumColors == 4   \* largest num_colors of a colormap
MaxPixels == 2      \* largest number of pixels of a label image

One == 2^FracBits
Half == One \div 2

Abs(x) == IF x < 0 THEN -x ELSE x

(***************************************************************************)
(* Floating point.                                                         *)
(***************************************************************************)
\* The spacing of the representable numbers around a magnitude of m quanta.
RECURSIVE Ulp(_)
Ulp(m) == IF m < 2^Prec THEN 1 ELSE 2 * Ulp(m \div 2)

\* p/d (d > 0) rounded to an integer, to nearest, ties to even.
RoundDiv(p, d) ==
    LET q == p \div d
        r == p % d
    IN  IF 2 * r < d THEN q
        ELSE IF 2 * r > d THEN q + 1
        ELSE IF q % 2 = 0 THEN q ELSE q + 1

\* The floating point number nearest to the rational p/q quanta (q > 0).
Fl(p, q) ==
    LET s == Ulp(Abs(p) \div q)
    IN  s * RoundDiv(p, q * s)

\* The largest power of two, at most lim, that divides b (b # 0).
RECURSIVE Pow2Part(_, _)
Pow2Part(b, lim) ==
    IF lim > 1 /\ b % 2 = 0 THEN 2 * Pow2Part(b \div 2, lim \div 2) ELSE 1

FlAdd(a, b) == Fl(a + b, 1)

\* a * b: the exact product is a*b/One quanta; the significands are multiplied.
FlMul(a, b) ==
    LET ca == Pow2Part(a, One)
        cb == Pow2Part(b, One)
        m == (a \div ca) * (b \div cb)
    IN  IF ca * cb >= One THEN Fl(m * ((ca * cb) \div One), 1)
        ELSE Fl(m, One \div (ca * cb))

\* a / b (b > 0): the exact quotient is a*One/b quanta.
FlDiv(a, b) ==
    LET c == Pow2Part(b, One)
    IN  Fl(a * (One \div c), b \div c)

\* The integer i as a floating point number.
FlInt(i) == Fl(i * One, 1)

\* A slip: the remainder of C, which keeps the sign of x.
FlMod1_fmod(x) == IF x >= 0 THEN x % One ELSE -((-x) % One)

\* x % 1 as numpy and Python compute it for floats: the C fmod (exact, with
\* the sign of x), to which 1 is added, in floating point, when it is negative.
FlMod1(x) ==
    LET r == IF x >= 0 THEN x % One ELSE -((-x) % One)
    IN  IF r < 0 THEN FlAdd(r, One) ELSE r

(***************************************************************************)
(* Outcomes of a call: a value, or the exception it raised.                *)
(***************************************************************************)
Ok(v) == [ok |-> TRUE, err |-> "", val |-> v]
Raise(e) == [ok |-> FALSE, err |-> e, val |-> <<>>]

(***************************************************************************)
(* _low_discrepancy                                                        *)
(***************************************************************************)
phi1 == Fl(16180 * One, 10000)
phi2 == Fl(13247 * One, 10000)
phi3 == Fl(12207 * One, 10000)
phi == <<phi1, phi2, phi3>>

\* g = 1 / phi
g == [d \in 1..3 |-> FlDiv(One, phi[d])]

\* np.broadcast_to(seed, (1, dim)); a scalar seed is a sequence of length 1.
CanBroadcast(seed, dim) == dim >= 0 /\ Len(seed) \in {1, dim}
broadcast_to(seed, dim) ==
    [d \in 1..dim |-> IF Len(seed) = 1 THEN seed[1] ELSE seed[d]]

\* Point i (0-based) of the sequence: (seed + (i * g[:dim])) % 1.
Point(dim, i, seed) ==
    [d \in 1..dim |-> FlMod1(FlAdd(seed[d], FlMul(FlInt(i), g[d])))]

\* A slip: the dimension is clamped to the three constants there are.
low_discrepancy_clamped(dim, n, seed) ==
    IF ~CanBroadcast(seed, dim) THEN Raise("ValueError")
    ELSE Ok([i \in 1..n |->
                Point(IF dim > 3 THEN 3 ELSE dim, i - 1, broadcast_to(seed, dim))])

\* A slip: the points are numbered from the end, so point i depends on n.
low_discrepancy_reversed(dim, n, seed) ==
    IF ~CanBroadcast(seed, dim) THEN Raise("ValueError")
    ELSE IF dim > 3 THEN Raise("ValueError")
    ELSE Ok([i \in 1..n |-> Point(dim, n - i, broadcast_to(seed, dim))])

low_discrepancy(dim, n, seed) ==
    IF ~CanBroadcast(seed, dim) THEN Raise("ValueError")
    ELSE IF dim > 3 THEN Raise("ValueError")   \* (1, dim) + (n, 3) do not broadcast
    ELSE Ok([i \in 1..n |-> Point(dim, i - 1, broadcast_to(seed, dim))])

(***************************************************************************)
(* _validate_rgb                                                           *)
(***************************************************************************)
clip(c) == IF c < 0 THEN 0 ELSE IF c > One THEN One ELSE c

\* np.all((colors > lo) & (colors < hi), axis=1) for one row
IsValid(row, tolerance) ==
    LET lo == FlAdd(0, -tolerance)
        hi == FlAdd(One, tolerance)
    IN  \A c \in 1..Len(row) : row[c] > lo /\ row[c] < hi

validate_rgb(colors, tolerance) ==
    LET Keep(row) == IsValid(row, tolerance)
        kept == SelectSeq(colors, Keep)
    IN  [i \in 1..Len(kept) |-> [c \in 1..Len(kept[i]) |-> clip(kept[i][c])]]

(***************************************************************************)
(* colorconv.lab2rgb and colorconv.luv2rgb (napari/util/colormaps/vendored, *)
(* the CIE inverse transforms to sRGB with the D65 white point).  They are *)
(* computed in fixed point: a value is a count of 1/CU.  The sRGB transfer *)
(* curve is interpolated linearly in a table, and a value beyond +-8 (XYZ) *)
(* or +-2 (sRGB) is reported as that limit: it is outside [0,1] by more    *)
(* than any tolerance drawn here, before as after.                         *)
(***************************************************************************)
CU == 2^ColorBits
ToCU(x) == RoundDiv(x, One \div CU)
FromCU(v) == Fl(v * (One \div CU), 1)

Sat(x, lim) == IF x > lim THEN lim ELSE IF x < -lim THEN -lim ELSE x

\* p/q rounded, for any sign of q; a division by zero gives the limit.
SafeDiv(p, q, lim) ==
    IF q = 0 THEN lim
    ELSE IF q < 0 THEN Sat(RoundDiv(-p, -q), lim)
    ELSE Sat(RoundDiv(p, q), lim)

Cube(f) == RoundDiv(RoundDiv(f * f, CU) * f, CU)

\* CIE f^-1: f^3 above 6/29, (f - 16/116) / 7.787 below.
LabFInv(f) ==
    IF f * 10000 > 2069 * CU THEN Cube(f)
    ELSE RoundDiv((f * 116 - 16 * CU) * 1000, 116 * 7787)

lab2xyz(lab) ==
    LET fy == RoundDiv(ToCU(lab[1]) + 16 * CU, 116)
        fx == fy + RoundDiv(ToCU(lab[2]), 500)
        fz0 == fy - RoundDiv(ToCU(lab[3]), 200)
        fz == IF fz0 < 0 THEN 0 ELSE fz0
    IN  << RoundDiv(LabFInv(fx) * 95047, 100000),
           LabFInv(fy),
           RoundDiv(LabFInv(fz) * 108883, 100000) >>

luv2xyz(luv) ==
    LET L == ToCU(luv[1])
        y == IF L * 1000 > 8000 * CU THEN Cube(RoundDiv(L + 16 * CU, 116))
             ELSE RoundDiv(L * 10, 9033)
        a == RoundDiv(1978 * CU, 10000) + SafeDiv(ToCU(luv[2]) * CU, 13 * L, 16 * CU)
        b == RoundDiv(4683 * CU, 10000) + SafeDiv(ToCU(luv[3]) * CU, 13 * L, 16 * CU)
    IN  << SafeDiv(9 * a * y, 4 * b, 8 * CU),
           y,
           SafeDiv(y * (12 * CU - 3 * a - 20 * b), 4 * b, 8 * CU) >>

\* The sRGB transfer curve 1.055 * v^(1/2.4) - 0.055 at some v, both in 1/10000.
GammaTable ==
    << <<31, 401>>, <<60, 702>>, <<100, 999>>, <<200, 1517>>, <<350, 2060>>,
       <<500, 2478>>, <<750, 3035>>, <<1000, 3492>>, <<1500, 4236>>,
       <<2000, 4845>>, <<2750, 5611>>, <<3500, 6262>>, <<5000, 7354>>,
       <<6500, 8267>>, <<8000, 9063>>, <<10000, 10000>>, <<12000, 10833>>,
       <<15000, 11942>>, <<20000, 13533>> >>

RECURSIVE GammaFrom(_, _)
GammaFrom(t, k) ==
    IF k = Len(GammaTable) THEN GammaTable[k][2]
    ELSE IF t > GammaTable[k + 1][1] THEN GammaFrom(t, k + 1)
    ELSE LET lo == GammaTable[k]
             hi == GammaTable[k + 1]
         IN  lo[2] + RoundDiv((t - lo[1]) * (hi[2] - lo[2]), hi[1] - lo[1])

\* Linear light (1/CU) to the sRGB value, a float.
Gamma(v) ==
    LET t == RoundDiv(Sat(v, 2 * CU) * 10000, CU)
        e == IF t > 31 THEN GammaFrom(t, 1) ELSE RoundDiv(t * 1292, 100)
    IN  Fl(Sat(e, 20000) * One, 10000)

xyz2rgb(xyz) ==
    LET x == Sat(xyz[1], 8 * CU)
        y == Sat(xyz[2], 8 * CU)
        z == Sat(xyz[3], 8 * CU)
    IN  << Gamma(RoundDiv(32405 * x - 15371 * y - 4985 * z, 10000)),
           Gamma(RoundDiv(-9693 * x + 18760 * y + 416 * z, 10000)),
           Gamma(RoundDiv(556 * x - 2040 * y + 10572 * z, 10000)) >>

lab2rgb(lab) == xyz2rgb(lab2xyz(lab))
luv2rgb(luv) == xyz2rgb(luv2xyz(luv))

(***************************************************************************)
(* _color_random                                                           *)
(***************************************************************************)
\* The float nearest to the decimal literal n/100.
Dec(n) == Fl(n * One, 100)

LUVMIN == <<0, Dec(-8308), Dec(-13410)>>
LUVMAX == <<Dec(10000), Dec(17501), Dec(10740)>>
LUVRNG == [c \in 1..3 |-> FlAdd(LUVMAX[c], -LUVMIN[c])]

LABMIN == <<0, Dec(-8618), Dec(-10786)>>
LABMAX == <<Dec(10000), Dec(9823), Dec(9448)>>
LABRNG == [c \in 1..3 |-> FlAdd(LABMAX[c], -LABMIN[c])]

\* random * RNG + MIN, for one point
Scale(p, rng, min) == [c \in 1..3 |-> FlAdd(FlMul(p[c], rng[c]), min[c])]

\* raw_rgb of one loop iteration, from the points drawn
RawRgb(random, colorspace) ==
    [i \in 1..Len(random) |->
        IF colorspace = "luv" THEN luv2rgb(Scale(random[i], LUVRNG, LUVMIN))
        ELSE IF colorspace = "rgb" THEN random[i]
        ELSE lab2rgb(Scale(random[i], LABRNG, LABMIN))]

\* raw_rgb of the iteration with the given factor
Draw(n, colorspace, seed, factor) ==
    RawRgb(low_discrepancy(3, n * factor, seed).val, colorspace)

\* A slip: the last n colours of the draw.
LastN(rgb, n) == SubSeq(rgb, Len(rgb) - n + 1, Len(rgb))

\* rgb[:n]
FirstN(rgb, n) == SubSeq(rgb, 1, IF n < Len(rgb) THEN n ELSE Len(rgb))

\* A slip: the oversampling factor is not expanded.
NextFactor_same(factor) == factor

\* factor *= expand_factor
NextFactor(factor) == factor * 2

\* The loop of _color_random, from an iteration on.  A call whose loop is
\* not left within MaxAttempts iterations is followed no further.
RECURSIVE color_random_loop(_, _, _, _, _, _, _)
color_random_loop(n, colorspace, tolerance, seed, factor, rgb, attempts) ==
    IF Len(rgb) < n
    THEN IF attempts = MaxAttempts THEN Raise("unfinished")
         ELSE color_random_loop(n, colorspace, tolerance, seed, NextFactor(factor),
                  validate_rgb(Draw(n, colorspace, seed, factor), tolerance),
                  attempts + 1)
    ELSE Ok(FirstN(rgb, n))

color_random(n, colorspace, tolerance, seed) ==
    color_random_loop(n, colorspace, tolerance, seed, 6, <<>>, 0)

(***************************************************************************)
(* label_colormap                                                          *)
(***************************************************************************)
\* np.linspace(0, 1, num), num >= 0
linspace01(num) ==
    [i \in 1..num |->
        IF num = 1 THEN 0
        ELSE IF i = num THEN One
        ELSE FlMul(FlInt(i - 1), FlDiv(One, FlInt(num - 1)))]

\* A slip: the two end points are not added to the midpoints.
ControlPoints_midpoints(num_colors) == linspace01(num_colors - 1)

\* control_points = np.concatenate(([0.], midpoints, [1.]))
ControlPoints(num_colors) == <<0>> \o linspace01(num_colors - 1) \o <<One>>

\* A slip: colours without the override of row 0.
Rgba_plain(rgb) == [i \in 1..Len(rgb) |-> rgb[i] \o <<One>>]

\* colors: an alpha of 1 is appended to each row, then colors[0, :] = 0.
Rgba(rgb) ==
    [i \in 1..Len(rgb) |-> IF i = 1 THEN <<0, 0, 0, 0>> ELSE rgb[i] \o <<One>>]

label_colormap(num_colors, seed) ==
    IF num_colors - 1 < 0 THEN Raise("ValueError")      \* np.linspace
    ELSE IF ~CanBroadcast(seed, 3) THEN Raise("ValueError")
    ELSE LET rgb == color_random(num_colors, "lab", 0, seed)
         IN  IF ~rgb.ok THEN rgb
             ELSE Ok([colors |-> Rgba(rgb.val),
                      controls |-> ControlPoints(num_colors),
                      interpolation |-> "zero"])

\* vispy's Colormap.map for interpolation='zero' (zero-order hold): the
\* colour at index clip(searchsorted(controls, x) - 1, 0, ncolors - 1).
colormap_map(cm, x) ==
    LET below == Cardinality({j \in 1..Len(cm.controls) : cm.controls[j] < x})
        last == Len(cm.colors) - 1
        idx == IF below - 1 < 0 THEN 0
               ELSE IF below - 1 > last THEN last ELSE below - 1
    IN  cm.colors[idx + 1]

(***************************************************************************)
(* _low_discrepancy_image, and the Labels layer                            *)
(***************************************************************************)
\* (seed + image / phi) % 1 for one element
low_discrepancy_value(label, seed) ==
    FlMod1(FlAdd(seed, FlDiv(FlInt(label), phi1)))

\* A slip: the labels are taken relative to the smallest label of the image.
low_discrepancy_image_relative(image, seed) ==
    LET least == CHOOSE m \in {image[i] : i \in 1..Len(image)} :
                    \A i \in 1..Len(image) : m <= image[i]
    IN  [i \in 1..Len(image) |-> low_discrepancy_value(image[i] - least, seed)]

low_discrepancy_image(image, seed) ==
    [i \in 1..Len(image) |-> low_discrepancy_value(image[i], seed)]

\* Labels.__init__: the fields it sets
Labels(label_image, num_colors) ==
    [seed |-> Half,
     raw_image |-> label_image,
     image |-> low_discrepancy_image(label_image, Half),
     colormap |-> label_colormap(num_colors, <<Half>>).val]

\* Labels.label_color
label_color(self, label) ==
    colormap_map(self.colormap, low_discrepancy_image(<<label>>, self.seed)[1])

(***************************************************************************)
(* colormaps.py as an imported module.  The six bounding-box arrays are    *)
(* module-level numpy arrays: mutable objects that every call reaches      *)
(* through the module's namespace (phi, in contrast, is built anew inside  *)
(* each call of _low_discrepancy).  Here a function is run against the     *)
(* arrays as they are at the time of the call, and gives back its result   *)
(* together with the arrays as it leaves them.                             *)
(***************************************************************************)
Module0 ==
    [LUVMIN |-> LUVMIN, LUVMAX |-> LUVMAX, LUVRNG |-> LUVRNG,
     LABMIN |-> LABMIN, LABMAX |-> LABMAX, LABRNG |-> LABRNG]

\* raw_rgb of one iteration, from the points drawn and the module's arrays
RawRgbFrom(m, random, colorspace) ==
    [i \in 1..Len(random) |->
        IF colorspace = "luv" THEN luv2rgb(Scale(random[i], m.LUVRNG, m.LUVMIN))
        ELSE IF colorspace = "rgb" THEN random[i]
        ELSE lab2rgb(Scale(random[i], m.LABRNG, m.LABMIN))]

\* A slip: the box is narrowed in place to the first point drawn
\* (LABRNG *= random[0], LUVRNG *= random[0]).
RawRgb_run_inplace(m, random, colorspace) ==
    LET Narrow(rng) == [c \in 1..3 |-> FlMul(rng[c], random[1][c])]
    IN  [raw_rgb |-> RawRgbFrom(m, random, colorspace),
         module |-> IF colorspace = "luv"
                    THEN [m EXCEPT !.LUVRNG = Narrow(m.LUVRNG)]
                    ELSE IF colorspace = "rgb" THEN m
                    ELSE [m EXCEPT !.LABRNG = Narrow(m.LABRNG)]]

\* The branch of _color_random that makes raw_rgb: random * LUVRNG + LUVMIN
\* and random * LABRNG + LABMIN allocate their results, and `raw_rgb =
\* random` binds the fresh array of points; the module's arrays are only read.
RawRgb_run(m, random, colorspace) ==
    [raw_rgb |-> RawRgbFrom(m, random, colorspace), module |-> m]

\* The loop of _color_random, run against the module's arrays.
RECURSIVE color_random_loop_run(_, _, _, _, _, _, _, _)
color_random_loop_run(m, n, colorspace, tolerance, seed, factor, rgb, attempts) ==
    IF Len(rgb) < n
    THEN IF attempts = MaxAttempts
         THEN [module |-> m, out |-> Raise("unfinished")]
         ELSE LET random == low_discrepancy(3, n * factor, seed).val
                  r == RawRgb_run(m, random, colorspace)
              IN  color_random_loop_run(r.module, n, colorspace, tolerance,
                      seed, NextFactor(factor),
                      validate_rgb(r.raw_rgb, tolerance), attempts + 1)
    ELSE [module |-> m, out |-> Ok(FirstN(rgb, n))]

color_random_run(m, n, colorspace, tolerance, seed) ==
    color_random_loop_run(m, n, colorspace, tolerance, seed, 6, <<>>, 0)

\* label_colormap, run against the module's arrays.
label_colormap_run(m, num_colors, seed) ==
    IF num_colors - 1 < 0 THEN [module |-> m, out |-> Raise("ValueError")]
    ELSE IF ~CanBroadcast(seed, 3) THEN [module |-> m, out |-> Raise("ValueError")]
    ELSE LET rgb == color_random_run(m, num_colors, "lab", 0, seed)
         IN  [module |-> rgb.module,
              out |-> IF ~rgb.out.ok THEN rgb.out
                      ELSE Ok([colors |-> Rgba(rgb.out.val),
                               controls |-> ControlPoints(num_colors),
                               interpolation |-> "zero"])]

(***************************************************************************)
(* napari/resources/build_icons.py: themify_icons.  A file name is the     *)
(* sequence of its stem and its extensions (<<"menu", ".svg">>); a folder  *)
(* is the set of the names in it; a themed file written is a record of the *)
(* theme folder and name it is written to, the file it was read from and   *)
(* the fill colour inserted.                                               *)
(***************************************************************************)
SVGPATH == "icons"      \* os.path.join(RESOURCES_DIR, 'icons')

\* i.endswith('.svg')
endswith_svg(i) == Len(i) > 0 /\ i[Len(i)] = ".svg"

\* i.replace('.svg', ''): every occurrence is removed
replace_svg(i) ==
    LET NotSvg(t) == t # ".svg"
    IN  SelectSeq(i, NotSvg)

\* os.listdir: the names of a folder, in some order
RECURSIVE listdir(_)
listdir(folder) ==
    IF folder = {} THEN <<>>
    ELSE LET i == CHOOSE x \in folder : TRUE
         IN  <<i>> \o listdir(folder \ {i})

\* [f(i) for i in names if i.endswith('.svg')], f = replace('.svg', '')
IconNames(names) ==
    LET svgs == SelectSeq(names, endswith_svg)
    IN  [k \in 1..Len(svgs) |-> replace_svg(svgs[k])]

\* the default color_lookup, and color_lookup.get(icon_name, 'icon')
color_lookup(icon_name) ==
    IF icon_name = <<"visibility">> THEN "text"
    ELSE IF icon_name = <<"menu">> THEN "highlight"
    ELSE IF icon_name \in {<<"visibility_off">>, <<"drop_down">>, <<"plus">>,
                           <<"minus">>, <<"properties_contract">>,
                           <<"properties_expand">>} THEN "secondary"
    ELSE "icon"

\* palette[color] of a theme: the colour is named by its theme and class
PaletteColor(theme_name, color) == <<theme_name, color>>

\* The body of the loops, from the k-th (theme, icon) pair on.  disk is the
\* source folders by path; st is [dirs, written, files, err].
RECURSIVE themify_loop(_, _, _, _, _, _)
themify_loop(disk, read_from, themes, icon_names, k, st) ==
    LET per == Len(icon_names)
        t == (k - 1) \div (IF per = 0 THEN 1 ELSE per) + 1
    IN  IF per = 0 \/ t > Len(themes) THEN st
        ELSE LET theme_name == themes[t]
                 icon_name == icon_names[((k - 1) % per) + 1]
                 svg_name == icon_name \o <<".svg">>
                 color == color_lookup(icon_name)
             IN  IF svg_name \notin disk[read_from]      \* open(..., 'r')
                 THEN [st EXCEPT !.err = "FileNotFoundError"]
                 ELSE themify_loop(disk, read_from, themes, icon_names, k + 1,
                        [st EXCEPT
                           !.written = {w \in st.written :
                                          <<w.theme, w.name>> # <<theme_name, svg_name>>}
                                       \cup {[theme |-> theme_name,
                                              name |-> svg_name,
                                              from |-> <<read_from, svg_name>>,
                                              fill |-> PaletteColor(theme_name, color)]},
                           !.files = Append(st.files, <<theme_name, svg_name>>)])

\* themify_icons(dest_dir, svg_path, palettes): the folder listed and the
\* folder read from are both SVGPATH; svg_path is not used.  A theme folder
\* is made before the theme's icons are written; the folders of the themes
\* after a failing open are not made.
themify_icons(disk, svg_path, palettes) ==
    LET icon_names == IconNames(listdir(disk[SVGPATH]))
        st == themify_loop(disk, SVGPATH, palettes, icon_names, 1,
                [dirs |-> {}, written |-> {}, files |-> <<>>, err |-> ""])
        reached == IF st.err = "" THEN Len(palettes)
                   ELSE Len(st.files) \div Len(icon_names) + 1
    IN  [st EXCEPT !.dirs = {palettes[t] : t \in 1..reached}]

(***************************************************************************)
(* napari/resources/build_icons.py: _find_rcc_or_raise and                 *)
(* build_pyqt_resources.  A directory of the search path is the set of the *)
(* executables in it.                                                      *)
(***************************************************************************)
\* A slip: pyside2-rcc is looked for first.
BinNames_reversed == <<"pyside2-rcc", "pyrcc5">>

\* for bin_name in ('pyrcc5', 'pyside2-rcc')
BinNames == <<"pyrcc5", "pyside2-rcc">>

\* paths: [python_dir, PATH], with python_dir\Scripts in front on Windows
SearchPath(os_name) ==
    IF os_name = "nt" THEN <<"Scripts", "python_dir", "PATH">>
    ELSE <<"python_dir", "PATH">>

\* shutil.which(bin_name, path=path): the first directory of the path that
\* holds the executable, "" (None) if there is none
RECURSIVE which(_, _, _)
which(bin_name, path, dirs) ==
    IF path = <<>> THEN ""
    ELSE IF bin_name \in dirs[Head(path)] THEN Head(path)
    ELSE which(bin_name, Tail(path), dirs)

\* The generator _find_rcc_or_raise, resumed with its loop at candidate k:
\* the index of the next candidate that shutil.which finds (it is yielded),
\* or 0 when the loop runs out and FileNotFoundError is raised.
RECURSIVE find_rcc_next(_, _, _)
find_rcc_next(k, os_name, dirs) ==
    IF k > Len(BinNames) THEN 0
    ELSE IF which(BinNames[k], SearchPath(os_name), dirs) # "" THEN k
    ELSE find_rcc_next(k + 1, os_name, dirs)

(***************************************************************************)
(* Labels._refresh, Labels._update, Labels._set_view_slice and              *)
(* Labels._slice_image.  The image of the layer is a sequence of rows.     *)
(* The calls under way are kept as a stack of frames [fn, pc], the         *)
(* innermost last.                                                         *)
(***************************************************************************)
\* An index: slice(None), or an integer
All == [slice |-> TRUE, at |-> 0]
At(i) == [slice |-> FALSE, at |-> i]

\* Labels._slice_image(indices) for a two-dimensional image: the indices
\* are cut to ndim, an integer index above the last one of its dimension is
\* set to the last one, and image[tuple(indices)] is taken.
slice_image(image, indices) ==
    LET Clamp(i, size) == IF i.slice THEN i
                          ELSE IF i.at > size - 1 THEN At(size - 1) ELSE i
        r == Clamp(indices[1], Len(image))
        c == Clamp(indices[2], Len(image[1]))
        Row(k) == IF c.slice THEN image[k] ELSE <<image[k][c.at + 1]>>
    IN  IF r.slice THEN [k \in 1..Len(image) |-> Row(k)]
        ELSE <<Row(r.at + 1)>>

\* viewer.dims._update() (napari/components, not part of the sources at
\* hand): it may or may not take up _child_layer_changed, and it does not
\* call back into the layer.
dims_update(child_layer_changed, taken) ==
    IF taken THEN FALSE ELSE child_layer_changed

Top(stack) == stack[Len(stack)]
Pop(stack) == SubSeq(stack, 1, Len(stack) - 1)
SetPc(stack, pc) == [stack EXCEPT ![Len(stack)].pc = pc]
Frame(fn, pc) == [fn |-> fn, pc |-> pc]

\* A slip: _need_display_update is not reset in the display branch.
display_branch_flag_kept(r, taken) ==
    [r EXCEPT !.child_layer_changed = dims_update(TRUE, taken),
              !.need_colortransform_update = TRUE]

\* The display branch of _update up to its call of _set_view_slice: the flag
\* is reset, the viewer's dims are told and updated, and the node is marked.
display_branch(r, taken) ==
    [r EXCEPT !.need_display_update = FALSE,
              !.child_layer_changed = dims_update(TRUE, taken),
              !.need_colortransform_update = TRUE]

(***************************************************************************)
(* Inputs.                                                                 *)
(***************************************************************************)
\* The colours of the example in _validate_rgb's docstring.
DocColors ==
    << <<0, One, One>>, <<Dec(110), 0, Dec(-3)>>, <<Dec(120), One, Half>> >>
Rows ==
    {DocColors[1], DocColors[2], DocColors[3],
     <<Half, Half, Half>>, <<Dec(-20), Half, Dec(25)>>, <<Dec(115), Dec(-15), Half>>}
Tolerances == {0, Dec(15), Half}

RECURSIVE SeqsUpTo(_, _)
SeqsUpTo(S, n) ==
    IF n = 0 THEN {<<>>}
    ELSE LET shorter == SeqsUpTo(S, n - 1)
         IN  shorter \cup {Append(s, x) : s \in shorter, x \in S}

Dims == -1..4
Tiny == 1       \* the smallest positive number
ScalarSeeds == {0, Half, Half \div 2, -Tiny, -Half \div 2, One + Half \div 2, -3 * One}
Seeds ==
    {<<s>> : s \in ScalarSeeds}
        \cup {<<Half, Half \div 2>>, <<Half, 0, -Tiny>>, <<0, Half, Half \div 2, Half>>}

(***************************************************************************)
(* The state machines.  The functions of colormaps.py keep no state        *)
(* between calls, so each is put under a specification of its own: the     *)
(* initial state holds the arguments of a call about to be made (op =      *)
(* "args"), and the actions are the call, or the steps of its loop.        *)
(***************************************************************************)
NoCall == [op |-> "none", dim |-> 0, n |-> 0, seed |-> <<0>>, out |-> Ok(<<>>)]
NoValidate == [op |-> "none", colors |-> <<>>, tolerance |-> 0, out |-> <<>>]
NoColorRandom ==
    [pc |-> "none", n |-> 0, colorspace |-> "lab", tolerance |-> 0,
     seed |-> <<Half>>, factor |-> 0, rgb |-> <<>>, raw |-> <<>>,
     attempts |-> 0, out |-> <<>>]

NoColormap ==
    [op |-> "none", num_colors |-> 0, seed |-> <<Half>>, out |-> Raise(""),
     x |-> 0, color |-> <<>>]
NoHash ==
    [op |-> "none", image |-> <<>>, seed |-> 0, out |-> <<>>, k |-> 0,
     single |-> <<>>]
NoLayer ==
    [pc |-> "none", label_image |-> <<>>, num_colors |-> 0, self |-> <<>>,
     label |-> 0, color |-> <<>>]

\* colormaps.py just imported, and no call made.
NoSession == [module |-> Module0, calls |-> <<>>]
NoIcons ==
    [pc |-> "none", svg_path |-> SVGPATH, disk |-> [icons |-> {}, custom |-> {}],
     palettes |-> <<>>, dirs |-> {}, written |-> {}, files |-> <<>>, err |-> ""]
NoRcc ==
    [pc |-> "none", overwrite |-> FALSE, os_name |-> "posix",
     dirs |-> [Scripts |-> {}, python_dir |-> {}, PATH |-> {}],
     outcome |-> [b \in {"pyrcc5", "pyside2-rcc"} |-> "ok"],
     out_exists |-> FALSE, qrc_exists |-> FALSE, themes_exist |-> FALSE,
     k |-> 0, tried |-> <<>>, converted |-> "", err |-> ""]
NoRefresh ==
    [image |-> <<>>, indices |-> <<All, All>>, child_layer_changed |-> FALSE,
     need_display_update |-> FALSE, need_visual_update |-> FALSE,
     need_colortransform_update |-> FALSE, data |-> <<>>, stack |-> <<>>,
     events |-> <<>>, done |-> 0, err |-> ""]

OthersIdle ==
    /\ session = NoSession
    /\ icons = NoIcons
    /\ rcc = NoRcc
    /\ refresh = NoRefresh

ColormapIdle ==
    /\ gen = NoCall /\ prev = NoCall
    /\ val = NoValidate
    /\ cr = NoColorRandom
    /\ cmap = NoColormap /\ hash = NoHash /\ layer = NoLayer

-----------------------------------------------------------------------------
Call(dim, n, seed) ==
    [op |-> "low_discrepancy", dim |-> dim, n |-> n, seed |-> seed,
     out |-> low_discrepancy(dim, n, seed)]

InitPoints ==
    /\ \E dim \in Dims, n \in 0..MaxN, seed \in Seeds :
            gen = [op |-> "args", dim |-> dim, n |-> n, seed |-> seed,
                   out |-> Ok(<<>>)]
    /\ prev = NoCall
    /\ val = NoValidate
    /\ cr = NoColorRandom
    /\ cmap = NoColormap /\ hash = NoHash /\ layer = NoLayer
    /\ OthersIdle

\* The call _low_discrepancy(dim, n, seed).
GeneratePoints ==
    /\ gen.op = "args"
    /\ gen' = Call(gen.dim, gen.n, gen.seed)
    /\ UNCHANGED <<prev, val, cr, cmap, hash, layer>>
    /\ UNCHANGED otherVars

\* A second call, with the same dim and seed, for k more points.
GenerateMore ==
    \E k \in 0..MaxK :
        /\ gen.op = "low_discrepancy"
        /\ prev.op = "none"
        /\ gen' = Call(gen.dim, gen.n + k, gen.seed)
        /\ prev' = gen
        /\ UNCHANGED <<val, cr, cmap, hash, layer>>
        /\ UNCHANGED otherVars

NextPoints == GeneratePoints \/ GenerateMore
SpecPoints == InitPoints /\ [][NextPoints]_vars

-----------------------------------------------------------------------------
InitValidate ==
    /\ \E colors \in SeqsUpTo(Rows, MaxRows), tolerance \in Tolerances :
            val = [op |-> "args", colors |-> colors, tolerance |-> tolerance,
                   out |-> <<>>]
    /\ gen = NoCall
    /\ prev = NoCall
    /\ cr = NoColorRandom
    /\ cmap = NoColormap /\ hash = NoHash /\ layer = NoLayer
    /\ OthersIdle

\* The call _validate_rgb(colors, tolerance=tolerance).
ValidateRgb ==
    /\ val.op = "args"
    /\ val' = [val EXCEPT !.op = "validate_rgb",
                          !.out = validate_rgb(val.colors, val.tolerance)]
    /\ UNCHANGED <<gen, prev, cr, cmap, hash, layer>>
    /\ UNCHANGED otherVars

NextValidate == ValidateRgb
SpecValidate == InitValidate /\ [][NextValidate]_vars

-----------------------------------------------------------------------------
ColorSpaces == {"lab", "luv", "rgb"}
ColorSeeds ==
    {<<Half>>, <<0>>, <<-Tiny>>, <<Dec(118)>>, <<Half, 0, Dec(25)>>,
     <<Dec(74), Dec(1), Dec(14)>>}

InitColor ==
    /\ \E n \in 0..MaxColors, colorspace \in ColorSpaces,
          tolerance \in Tolerances, seed \in ColorSeeds :
            cr = [NoColorRandom EXCEPT !.pc = "args", !.n = n,
                                       !.colorspace = colorspace,
                                       !.tolerance = tolerance, !.seed = seed]
    /\ gen = NoCall
    /\ prev = NoCall
    /\ val = NoValidate
    /\ cmap = NoColormap /\ hash = NoHash /\ layer = NoLayer
    /\ OthersIdle

\* Entry of _color_random: factor = 6, rgb = np.zeros((0, 3)).
ColorRandomEnter ==
    /\ cr.pc = "args"
    /\ cr' = [cr EXCEPT !.pc = "loop", !.factor = 6, !.rgb = <<>>]
    /\ UNCHANGED <<gen, prev, val, cmap, hash, layer>>
    /\ UNCHANGED otherVars

\* One iteration of `while len(rgb) < n`.
ColorRandomAttempt ==
    /\ cr.pc = "loop"
    /\ Len(cr.rgb) < cr.n
    /\ cr.attempts < MaxAttempts
    /\ LET raw_rgb == Draw(cr.n, cr.colorspace, cr.seed, cr.factor)
       IN  cr' = [cr EXCEPT !.raw = raw_rgb,
                            !.rgb = validate_rgb(raw_rgb, cr.tolerance),
                            !.factor = NextFactor(cr.factor),
                            !.attempts = cr.attempts + 1]
    /\ UNCHANGED <<gen, prev, val, cmap, hash, layer>>
    /\ UNCHANGED otherVars

\* The loop is left: return rgb[:n].
ColorRandomReturn ==
    /\ cr.pc = "loop"
    /\ ~(Len(cr.rgb) < cr.n)
    /\ cr' = [cr EXCEPT !.pc = "done", !.out = FirstN(cr.rgb, cr.n)]
    /\ UNCHANGED <<gen, prev, val, cmap, hash, layer>>
    /\ UNCHANGED otherVars

NextColor == ColorRandomEnter \/ ColorRandomAttempt \/ ColorRandomReturn
SpecColor == InitColor /\ [][NextColor]_vars

-----------------------------------------------------------------------------
ColormapSeeds == ColorSeeds \cup {<<Dec(25)>>, <<Dec(62)>>, <<Half, Dec(25)>>}
\* Positions at which a colormap is looked up.
Positions == {0, Tiny, Dec(25), Half, Dec(75), One}

InitColormap ==
    /\ \E num_colors \in 0..MaxNumColors, seed \in ColormapSeeds :
            cmap = [NoColormap EXCEPT !.op = "args", !.num_colors = num_colors,
                                      !.seed = seed]
    /\ gen = NoCall
    /\ prev = NoCall
    /\ val = NoValidate
    /\ cr = NoColorRandom
    /\ hash = NoHash /\ layer = NoLayer
    /\ OthersIdle

\* The call label_colormap(num_colors, seed).
LabelColormap ==
    /\ cmap.op = "args"
    /\ cmap' = [cmap EXCEPT !.op = "built",
                            !.out = label_colormap(cmap.num_colors, cmap.seed)]
    /\ UNCHANGED <<gen, prev, val, cr, hash, layer>>
    /\ UNCHANGED otherVars

\* A lookup cmap.map(x) in the colormap built (vispy wants two colours).
ColormapMap ==
    \E x \in Positions :
        /\ cmap.op = "built"
        /\ cmap.out.ok
        /\ Len(cmap.out.val.colors) >= 2
        /\ cmap' = [cmap EXCEPT !.op = "mapped", !.x = x,
                                !.color = colormap_map(cmap.out.val, x)]
        /\ UNCHANGED <<gen, prev, val, cr, hash, layer>>
        /\ UNCHANGED otherVars

NextColormap == LabelColormap \/ ColormapMap
SpecColormap == InitColormap /\ [][NextColormap]_vars

-----------------------------------------------------------------------------
LabelValues == {-2, -1, 0, 1, 2, 7}
Images == SeqsUpTo(LabelValues, MaxPixels) \ {<<>>}
HashSeeds == {Half, 0, -Tiny, Dec(25), -Half, Dec(-62), One + Dec(25)}

InitHash ==
    /\ \E image \in Images, seed \in HashSeeds :
            hash = [NoHash EXCEPT !.op = "args", !.image = image, !.seed = seed]
    /\ gen = NoCall
    /\ prev = NoCall
    /\ val = NoValidate
    /\ cr = NoColorRandom
    /\ cmap = NoColormap /\ layer = NoLayer
    /\ OthersIdle

\* The call _low_discrepancy_image(image, seed) on a whole label image.
HashImage ==
    /\ hash.op = "args"
    /\ hash' = [hash EXCEPT !.op = "image",
                            !.out = low_discrepancy_image(hash.image, hash.seed)]
    /\ UNCHANGED <<gen, prev, val, cr, cmap, layer>>
    /\ UNCHANGED otherVars

\* The call _low_discrepancy_image(np.array([label]), seed) for the label at
\* index k of the image.
HashLabel ==
    \E k \in 1..MaxPixels :
        /\ hash.op = "image"
        /\ k <= Len(hash.image)
        /\ hash' = [hash EXCEPT !.op = "label", !.k = k,
                        !.single = low_discrepancy_image(<<hash.image[k]>>, hash.seed)]
        /\ UNCHANGED <<gen, prev, val, cr, cmap, layer>>
        /\ UNCHANGED otherVars

NextHash == HashImage \/ HashLabel
SpecHash == InitHash /\ [][NextHash]_vars

-----------------------------------------------------------------------------
InitLayer ==
    /\ \E label_image \in Images, num_colors \in 2..MaxNumColors :
            layer = [NoLayer EXCEPT !.pc = "args", !.label_image = label_image,
                                    !.num_colors = num_colors]
    /\ gen = NoCall
    /\ prev = NoCall
    /\ val = NoValidate
    /\ cr = NoColorRandom
    /\ cmap = NoColormap /\ hash = NoHash
    /\ OthersIdle

\* Labels(label_image, num_colors=num_colors)
LabelsInit ==
    /\ layer.pc = "args"
    /\ layer' = [layer EXCEPT !.pc = "ready",
                              !.self = Labels(layer.label_image, layer.num_colors)]
    /\ UNCHANGED <<gen, prev, val, cr, cmap, hash>>
    /\ UNCHANGED otherVars

\* layer.label_color(label)
LabelColor ==
    \E label \in LabelValues :
        /\ layer.pc \in {"ready", "picked"}
        /\ layer' = [layer EXCEPT !.pc = "picked", !.label = label,
                                  !.color = label_color(layer.self, label)]
        /\ UNCHANGED <<gen, prev, val, cr, cmap, hash>>
        /\ UNCHANGED otherVars

NextLayer == LabelsInit \/ LabelColor
SpecLayer == InitLayer /\ [][NextLayer]_vars

-----------------------------------------------------------------------------
(* A session: calls of _low_discrepancy, _color_random and label_colormap  *)
(* made one after another, in any order, against the one imported module.  *)
MaxCalls == 3       \* most calls made in a session

PointsArgs ==
    {[dim |-> 3, n |-> 2, seed |-> <<Half>>],
     [dim |-> 2, n |-> 1, seed |-> <<0, Dec(25)>>]}
ColorRandomArgs ==
    {[n |-> 2, colorspace |-> "rgb", tolerance |-> 0, seed |-> <<Half>>],
     [n |-> 1, colorspace |-> "luv", tolerance |-> Dec(15), seed |-> <<Dec(25)>>]}
ColormapArgs ==
    {[num_colors |-> 2, seed |-> <<Half>>],
     [num_colors |-> 3, seed |-> <<Dec(25)>>]}

\* The session after a call: what the call left of the module, and its record.
AfterCall(fn, args, r) ==
    [module |-> r.module,
     calls |-> Append(session.calls, [fn |-> fn, args |-> args, out |-> r.out])]

InitSession ==
    /\ session = NoSession
    /\ ColormapIdle
    /\ icons = NoIcons /\ rcc = NoRcc /\ refresh = NoRefresh

\* _low_discrepancy reaches no module-level array: it builds phi itself.
SessionGeneratePoints ==
    \E a \in PointsArgs :
        /\ Len(session.calls) < MaxCalls
        /\ session' = AfterCall("low_discrepancy", a,
                        [module |-> session.module,
                         out |-> low_discrepancy(a.dim, a.n, a.seed)])
        /\ UNCHANGED <<colormapVars, icons, rcc, refresh>>

SessionColorRandom ==
    \E a \in ColorRandomArgs :
        /\ Len(session.calls) < MaxCalls
        /\ session' = AfterCall("color_random", a,
                        color_random_run(session.module, a.n, a.colorspace,
                                         a.tolerance, a.seed))
        /\ UNCHANGED <<colormapVars, icons, rcc, refresh>>

SessionLabelColormap ==
    \E a \in ColormapArgs :
        /\ Len(session.calls) < MaxCalls
        /\ session' = AfterCall("label_colormap", a,
                        label_colormap_run(session.module, a.num_colors, a.seed))
        /\ UNCHANGED <<colormapVars, icons, rcc, refresh>>

NextSession == SessionGeneratePoints \/ SessionColorRandom \/ SessionLabelColormap
SpecSession == InitSession /\ [][NextSession]_vars

-----------------------------------------------------------------------------
(* A call of themify_icons.  The icons folder of the package and a folder  *)
(* of the caller's hold some files each; the caller passes svg_path (the   *)
(* default is SVGPATH) and the palettes of some themes.                    *)
MaxFiles == 2       \* most files in a folder

FileNames ==
    {<<"menu", ".svg">>, <<"plus", ".svg">>, <<"logo", ".png">>,
     <<"menu", ".svg", ".svg">>}
Folders == {f \in SUBSET FileNames : Cardinality(f) <= MaxFiles}
Palettes ==
    {<<>>, <<"dark">>, <<"light">>, <<"dark", "light">>, <<"light", "dark">>}

InitIcons ==
    /\ \E default \in Folders, custom \in Folders,
          svg_path \in {SVGPATH, "custom"}, palettes \in Palettes :
            icons = [NoIcons EXCEPT !.pc = "args", !.svg_path = svg_path,
                        !.disk = [icons |-> default, custom |-> custom],
                        !.palettes = palettes]
    /\ ColormapIdle
    /\ session = NoSession /\ rcc = NoRcc /\ refresh = NoRefresh

\* themify_icons(dest_dir, svg_path, palettes), dest_dir a new folder
ThemifyIcons ==
    /\ icons.pc = "args"
    /\ LET r == themify_icons(icons.disk, icons.svg_path, icons.palettes)
       IN  icons' = [icons EXCEPT !.pc = IF r.err = "" THEN "done" ELSE "raised",
                                  !.dirs = r.dirs, !.written = r.written,
                                  !.files = r.files, !.err = r.err]
    /\ UNCHANGED <<colormapVars, session, rcc, refresh>>

NextIcons == ThemifyIcons
SpecIcons == InitIcons /\ [][NextIcons]_vars

-----------------------------------------------------------------------------
(* A call of build_pyqt_resources(out_path, overwrite).  The environment   *)
(* is the executables in the directories of the search path, and what      *)
(* check_call does when an rcc is run: it returns, raises SubprocessError  *)
(* (the rcc exits with an error), or raises OSError (it cannot be run).    *)
Executables == {"pyrcc5", "pyside2-rcc"}
Outcomes == {"ok", "SubprocessError", "OSError"}

InitRcc ==
    /\ \E overwrite \in BOOLEAN, out_exists \in BOOLEAN, qrc_exists \in BOOLEAN,
          os_name \in {"posix", "nt"},
          dirs \in [{"Scripts", "python_dir", "PATH"} -> SUBSET Executables],
          outcome \in [Executables -> Outcomes] :
            rcc = [NoRcc EXCEPT !.pc = "args", !.overwrite = overwrite,
                        !.out_exists = out_exists, !.qrc_exists = qrc_exists,
                        !.os_name = os_name, !.dirs = dirs, !.outcome = outcome]
    /\ ColormapIdle
    /\ session = NoSession /\ icons = NoIcons /\ refresh = NoRefresh

\* if os.path.exists(out_path) and not overwrite: return out_path
RccEnter ==
    /\ rcc.pc = "args"
    /\ rcc' = [rcc EXCEPT !.pc = IF rcc.out_exists /\ ~rcc.overwrite
                                 THEN "returned" ELSE "qrc"]
    /\ UNCHANGED <<colormapVars, session, icons, refresh>>

\* build_resources_qrc(dirname, overwrite): unless res.qrc exists and
\* overwrite is not set, the themed icons and res.qrc are written.
RccBuildQrc ==
    /\ rcc.pc = "qrc"
    /\ rcc' = [rcc EXCEPT !.pc = "find", !.k = 1,
                   !.themes_exist = IF rcc.qrc_exists /\ ~rcc.overwrite
                                    THEN rcc.themes_exist ELSE TRUE,
                   !.qrc_exists = TRUE]
    /\ UNCHANGED <<colormapVars, session, icons, refresh>>

\* The for statement asks the generator for its next name.
RccFind ==
    /\ rcc.pc = "find"
    /\ LET k == find_rcc_next(rcc.k, rcc.os_name, rcc.dirs)
       IN  rcc' = IF k = 0
                  THEN [rcc EXCEPT !.pc = "raised", !.err = "FileNotFoundError"]
                  ELSE [rcc EXCEPT !.pc = "convert", !.k = k]
    /\ UNCHANGED <<colormapVars, session, icons, refresh>>

\* try: check_call([name, '-o', out_path, qrc_path]); break
\* except SubprocessError: pass
RccConvert ==
    /\ rcc.pc = "convert"
    /\ LET name == BinNames[rcc.k]
           result == rcc.outcome[name]
       IN  rcc' = IF result = "ok"
                  THEN [rcc EXCEPT !.pc = "rewrite", !.tried = Append(rcc.tried, name),
                                   !.converted = name, !.out_exists = TRUE]
                  ELSE IF result = "SubprocessError"
                  THEN [rcc EXCEPT !.pc = "find", !.tried = Append(rcc.tried, name),
                                   !.k = rcc.k + 1]
                  ELSE [rcc EXCEPT !.pc = "raised", !.tried = Append(rcc.tried, name),
                                   !.err = result]
    /\ UNCHANGED <<colormapVars, session, icons, refresh>>

\* out_path, which the rcc has just written, is read, PySide2 and PyQt5 are
\* replaced by qtpy, and it is written back.
RccRewrite ==
    /\ rcc.pc = "rewrite"
    /\ rcc' = [rcc EXCEPT !.pc = "cleanup"]
    /\ UNCHANGED <<colormapVars, session, icons, refresh>>

\* shutil.rmtree(theme_dir, ignore_errors=True); os.remove(qrc_path)
RccCleanup ==
    /\ rcc.pc = "cleanup"
    /\ rcc' = [rcc EXCEPT !.pc = "returned", !.themes_exist = FALSE,
                          !.qrc_exists = FALSE]
    /\ UNCHANGED <<colormapVars, session, icons, refresh>>

NextRcc ==
    RccEnter \/ RccBuildQrc \/ RccFind \/ RccConvert \/ RccRewrite \/ RccCleanup
SpecRcc == InitRcc /\ [][NextRcc]_vars

-----------------------------------------------------------------------------
(* Refreshes of a Labels layer that is shown in a viewer.  Between two     *)
(* refreshes the viewer's dims may point at other indices.                 *)
MaxRefreshes == 2   \* most calls of _refresh that are followed
MaxDepth == 6       \* most frames on the stack (the interpreter's limit)

RawImages ==
    { << <<1, 2>> >>, << <<1, 2>>, <<0, 7>> >>, << <<0>>, <<2>>, <<1>> >> }
Indices ==
    {<<All, All>>, <<At(0), All>>, <<At(1), All>>, <<At(5), All>>, <<All, At(1)>>,
     <<At(1), At(0), At(3)>>}

\* A call is made: its frame is pushed, unless the stack is full.
Push(r, frame) ==
    IF Len(r.stack) < MaxDepth THEN [r EXCEPT !.stack = Append(r.stack, frame)]
    ELSE [r EXCEPT !.stack = <<>>, !.err = "RecursionError"]

\* Labels.__init__: _image is the hashed label image, both flags are False,
\* and the node has no data yet (ImageNode(None, ...)).
InitRefresh ==
    /\ \E raw \in RawImages :
            refresh = [NoRefresh EXCEPT
                         !.image = [k \in 1..Len(raw) |->
                                        low_discrepancy_image(raw[k], Half)]]
    /\ ColormapIdle
    /\ session = NoSession /\ icons = NoIcons /\ rcc = NoRcc

\* layer._refresh(): self._need_display_update = True; self._update()
Refresh ==
    \E indices \in Indices :
        /\ refresh.stack = <<>>
        /\ refresh.err = ""
        /\ refresh.done < MaxRefreshes
        /\ refresh' = Push([refresh EXCEPT !.indices = indices,
                                !.need_display_update = TRUE,
                                !.events = <<>>,
                                !.stack = <<Frame("_refresh", "ret")>>],
                           Frame("_update", "display"))
        /\ UNCHANGED <<colormapVars, session, icons, rcc>>

\* _update: if self._need_display_update: ... self._set_view_slice(indices)
UpdateDisplay ==
    \E taken \in BOOLEAN :
        /\ refresh.stack # <<>>
        /\ Top(refresh.stack) = Frame("_update", "display")
        /\ refresh' =
            IF refresh.need_display_update
            THEN Push([display_branch(refresh, taken) EXCEPT
                         !.stack = SetPc(refresh.stack, "visual")],
                      Frame("_set_view_slice", "body"))
            ELSE [refresh EXCEPT !.stack = SetPc(refresh.stack, "visual")]
        /\ UNCHANGED <<colormapVars, session, icons, rcc>>

\* _set_view_slice: the slice is pushed to the node, _need_visual_update is
\* set, and _update is called.
SetViewSlice ==
    /\ refresh.stack # <<>>
    /\ Top(refresh.stack) = Frame("_set_view_slice", "body")
    /\ LET sliced_image == slice_image(refresh.image, refresh.indices)
       IN  refresh' = Push([refresh EXCEPT
                               !.data = sliced_image,
                               !.events = Append(refresh.events,
                                                 <<"set_data", sliced_image>>),
                               !.need_visual_update = TRUE,
                               !.stack = SetPc(refresh.stack, "ret")],
                           Frame("_update", "display"))
    /\ UNCHANGED <<colormapVars, session, icons, rcc>>

\* _update: if self._need_visual_update: ... self._node.update(); return
UpdateVisual ==
    /\ refresh.stack # <<>>
    /\ Top(refresh.stack) = Frame("_update", "visual")
    /\ refresh' =
        IF refresh.need_visual_update
        THEN [refresh EXCEPT !.need_visual_update = FALSE,
                             !.events = Append(refresh.events, <<"update">>),
                             !.stack = Pop(refresh.stack)]
        ELSE [refresh EXCEPT !.stack = Pop(refresh.stack)]
    /\ UNCHANGED <<colormapVars, session, icons, rcc>>

\* _set_view_slice and _refresh return after their call of _update.
Return ==
    /\ refresh.stack # <<>>
    /\ Top(refresh.stack).pc = "ret"
    /\ refresh' = [refresh EXCEPT
                     !.stack = Pop(refresh.stack),
                     !.done = IF Top(refresh.stack).fn = "_refresh"
                              THEN refresh.done + 1 ELSE refresh.done]
    /\ UNCHANGED <<colormapVars, session, icons, rcc>>

NextRefresh == Refresh \/ UpdateDisplay \/ SetViewSlice \/ UpdateVisual \/ Return
\* A call under way goes on: the interpreter runs the next statement.
SpecRefresh == InitRefresh /\ [][NextRefresh]_vars /\ WF_vars(NextRefresh)

(***************************************************************************)
(* Claims about _low_discrepancy (SpecPoints).                             *)
(***************************************************************************)
IsGen == gen.op = "low_discrepancy"

\* C7, as stated: for every dim outside {1,2,3} the call fails and returns no
\* point array.
C7_Original ==
    IsGen /\ gen.dim \notin {1, 2, 3} => ~gen.out.ok

\* C7, amended: the call raises ValueError (numpy's broadcasting error; the
\* code has no dimension check of its own) for every dim >= 4 and every
\* dim < 0, whereas for dim = 0 with a scalar or empty seed it returns
\* normally: n points that have no coordinates.
C7_DimOutsideRange ==
    IsGen =>
        /\ gen.dim > 3 \/ gen.dim < 0 =>
                ~gen.out.ok /\ gen.out.err = "ValueError"
        /\ gen.dim = 0 /\ Len(gen.seed) \in {0, 1} =>
                /\ gen.out.ok
                /\ Len(gen.out.val) = gen.n
                /\ \A i \in 1..gen.n : gen.out.val[i] = <<>>

\* C7 witness: a call with dim = 0 that returned two points without coordinates.
C7_Witness ==
    /\ IsGen /\ gen.dim = 0 /\ gen.n = 2
    /\ gen.out.ok /\ gen.out.val = << <<>>, <<>> >>

\* C8: after generate_points(dim, n, seed), a call with the same dim and seed
\* for n + k points returns the n points of the first call as its first n.
C8_Prefix ==
    IsGen /\ prev.op = "low_discrepancy" /\ prev.out.ok =>
        /\ gen.out.ok
        /\ Len(gen.out.val) = gen.n
        /\ Len(prev.out.val) = prev.n
        /\ \A i \in 1..prev.n : gen.out.val[i] = prev.out.val[i]

\* C8 witness: three distinct points of dimension 3, repeated as the first
\* three of a second call for five.
C8_Witness ==
    /\ IsGen /\ prev.op = "low_discrepancy"
    /\ gen.dim = 3 /\ prev.n = 3 /\ gen.n = prev.n + 2
    /\ gen.out.ok
    /\ gen.out.val[1] # gen.out.val[2] /\ gen.out.val[2] # gen.out.val[3]

Coords ==
    {gen.out.val[i][d] : i \in 1..Len(gen.out.val), d \in 1..gen.dim}

\* C9, as stated: every coordinate of every point lies in [0, 1).
C9_Original ==
    IsGen /\ gen.dim \in {1, 2, 3} /\ gen.out.ok =>
        \A c \in Coords : 0 <= c /\ c < One

\* C9, amended: every coordinate lies in the closed interval [0, 1]; it is
\* below 1 whenever the seed's coordinate is not negative (a sum seed + i*g
\* just below zero is rounded to exactly 1.0 by the floating point % 1).
C9_Range ==
    IsGen /\ gen.dim \in {1, 2, 3} /\ gen.out.ok =>
        \A i \in 1..Len(gen.out.val), d \in 1..gen.dim :
            LET c == gen.out.val[i][d]
            IN  /\ 0 <= c /\ c <= One
                /\ broadcast_to(gen.seed, gen.dim)[d] >= 0 => c < One

\* C9 witness: a seed with a coordinate just below zero; the first point has
\* the coordinate 1.0 there, the second a coordinate below 1.
C9_Witness ==
    /\ IsGen /\ gen.dim = 3 /\ gen.n = 3 /\ gen.out.ok
    /\ gen.seed = <<Half, 0, -Tiny>>
    /\ gen.out.val[1][3] = One
    /\ gen.out.val[2][3] < One

(***************************************************************************)
(* Claims about _validate_rgb (SpecValidate).                              *)
(***************************************************************************)
IsVal == val.op = "validate_rgb"

\* The rows of the input that lie strictly inside (-tolerance, 1+tolerance)
\* in every channel, by their indices in increasing order.
StrictlyInside(row, tolerance) ==
    \A c \in 1..3 : -tolerance < row[c] /\ row[c] < One + tolerance
RECURSIVE KeptIndices(_, _, _)
KeptIndices(colors, tolerance, i) ==
    IF i > Len(colors) THEN <<>>
    ELSE (IF StrictlyInside(colors[i], tolerance) THEN <<i>> ELSE <<>>)
            \o KeptIndices(colors, tolerance, i + 1)

\* C5, as stated: the result is the triples strictly inside
\* (-tolerance, 1+tolerance), in input order, clipped to [0,1], and the
\* documented example yields [[0,1,1]] at tolerance 0 and [[0,1,1],[1,0,0]]
\* at tolerance 0.15.
C5_Original ==
    IsVal =>
        /\ LET idx == KeptIndices(val.colors, val.tolerance, 1)
           IN  /\ Len(val.out) = Len(idx)
               /\ \A j \in 1..Len(idx) : \A c \in 1..3 :
                     val.out[j][c] = clip(val.colors[idx[j]][c])
        /\ Len(val.out) <= Len(val.colors)
        /\ val.colors = DocColors /\ val.tolerance = 0 =>
                val.out = << <<0, One, One>> >>
        /\ val.colors = DocColors /\ val.tolerance = Dec(15) =>
                val.out = << <<0, One, One>>, <<One, 0, 0>> >>

\* The part of C5 that the code does satisfy: everything but the example at
\* tolerance 0, where the result is empty.
C5_FilterPart ==
    IsVal =>
        /\ LET idx == KeptIndices(val.colors, val.tolerance, 1)
           IN  /\ Len(val.out) = Len(idx)
               /\ \A j \in 1..Len(idx) : \A c \in 1..3 :
                     val.out[j][c] = clip(val.colors[idx[j]][c])
        /\ val.colors = DocColors /\ val.tolerance = 0 => val.out = <<>>
        /\ val.colors = DocColors /\ val.tolerance = Dec(15) =>
                val.out = << <<0, One, One>>, <<One, 0, 0>> >>

(***************************************************************************)
(* Claims about label_colormap (SpecColormap).                             *)
(***************************************************************************)
Built == cmap.op \in {"built", "mapped"}

\* C1, as stated: for num_colors >= 2 the colormap has exactly num_colors
\* colour rows and exactly num_colors control points.
C1_Original ==
    Built /\ cmap.num_colors >= 2 /\ cmap.out.ok =>
        /\ Len(cmap.out.val.colors) = cmap.num_colors
        /\ Len(cmap.out.val.controls) = cmap.num_colors

\* C1, amended: for num_colors >= 2 and a seed of shape () or (3,) the
\* colormap is built, with exactly num_colors colour rows and exactly
\* num_colors + 1 control points: 0, then the num_colors - 1 points of
\* linspace(0, 1, num_colors - 1) (which begin with 0 and, from num_colors = 3
\* on, end with 1), then 1.
C1_Size ==
    Built /\ cmap.num_colors >= 2 /\ CanBroadcast(cmap.seed, 3) =>
        /\ cmap.out.ok
        /\ Len(cmap.out.val.colors) = cmap.num_colors
        /\ Len(cmap.out.val.controls) = cmap.num_colors + 1
        /\ LET ctl == cmap.out.val.controls
           IN  /\ ctl[1] = 0 /\ ctl[2] = 0
               /\ ctl[Len(ctl)] = One
               /\ cmap.num_colors >= 3 => ctl[Len(ctl) - 1] = One
               /\ \A j \in 1..(Len(ctl) - 1) : ctl[j] <= ctl[j + 1]

\* C1 witness: a colormap of four colours and five control points, one of
\* them strictly between 0 and 1.
C1_Witness ==
    /\ Built /\ cmap.num_colors = 4 /\ cmap.out.ok
    /\ Len(cmap.out.val.colors) = 4
    /\ Len(cmap.out.val.controls) = 5
    /\ 0 < cmap.out.val.controls[3] /\ cmap.out.val.controls[3] < One

\* C2: the first colour of the colormap is exactly [0,0,0,0], and every other
\* colour row has alpha 1.
C2_FirstTransparent ==
    Built /\ cmap.out.ok =>
        /\ cmap.out.val.colors[1] = <<0, 0, 0, 0>>
        /\ \A i \in 2..Len(cmap.out.val.colors) :
              /\ Len(cmap.out.val.colors[i]) = 4
              /\ cmap.out.val.colors[i][4] = One

\* C2 witness: the sampler's colour for slot 0 was not black, and is overridden.
C2_Witness ==
    /\ Built /\ cmap.out.ok /\ cmap.num_colors >= 2
    /\ color_random(cmap.num_colors, "lab", 0, cmap.seed).val[1] # <<0, 0, 0>>
    /\ cmap.out.val.colors[1] = <<0, 0, 0, 0>>
    /\ cmap.out.val.colors[2][4] = One

(***************************************************************************)
(* Claims about the Labels layer (SpecLayer).                              *)
(***************************************************************************)
\* C3: label_color(0) is fully transparent (alpha 0).
C3_Original ==
    layer.pc = "picked" /\ layer.label = 0 => layer.color[4] = 0

\* What the code does instead: label 0 is hashed to 0.5, where the colormap
\* holds an opaque colour (the behaviour C3 is contradicted by).
C3_LabelZeroOpaque ==
    layer.pc = "picked" /\ layer.label = 0 =>
        /\ low_discrepancy_image(<<0>>, layer.self.seed) = <<Half>>
        /\ layer.color[4] = One

(***************************************************************************)
(* Claims about _low_discrepancy_image (SpecHash).                         *)
(***************************************************************************)
\* C10, as stated: the value of a label inside an image equals the value of
\* the label computed alone, equals (seed + L/phi_1) mod 1, and lies in [0,1).
C10_Original ==
    hash.op = "label" =>
        LET v == hash.out[hash.k]
            L == hash.image[hash.k]
        IN  /\ v = hash.single[1]
            /\ v = FlMod1(FlAdd(hash.seed, FlDiv(FlInt(L), phi1)))
            /\ 0 <= v /\ v < One

\* C10, amended: the value of a label inside an image equals the value of
\* the label computed alone, equals (seed + L/phi_1) % 1 in floating point,
\* and lies in the closed interval [0,1]; it is below 1 for the layer's seed
\* 0.5, and whenever neither the seed nor the label is negative.
C10_Pointwise ==
    hash.op = "label" =>
        LET v == hash.out[hash.k]
            L == hash.image[hash.k]
        IN  /\ v = hash.single[1]
            /\ v = FlMod1(FlAdd(hash.seed, FlDiv(FlInt(L), phi1)))
            /\ 0 <= v /\ v <= One
            /\ hash.seed = Half \/ (hash.seed >= 0 /\ L >= 0) => v < One

\* C10 witness: label 0 beside another label, under a seed just below zero:
\* its value is exactly 1.0, in the image as alone.
C10_Witness ==
    /\ hash.op = "label" /\ hash.k = 2
    /\ hash.image = <<-2, 0>> /\ hash.seed = -Tiny
    /\ hash.out[2] = One /\ hash.single = <<One>>
    /\ hash.out[1] # hash.out[2]

(***************************************************************************)
(* Claims about _color_random (SpecColor).                                 *)
(***************************************************************************)
\* The indices of the rows of raw that pass the validity test, increasing.
RECURSIVE ValidIndices(_, _, _)
ValidIndices(raw, tolerance, i) ==
    IF i > Len(raw) THEN <<>>
    ELSE (IF IsValid(raw[i], tolerance) THEN <<i>> ELSE <<>>)
            \o ValidIndices(raw, tolerance, i + 1)

\* C4: when color_random returns, the result has exactly n rows, every
\* channel lies in [0,1], and row j is the (clipped) j-th valid colour of the
\* final draw, in the order of the points they came from.
C4_FirstValid ==
    cr.pc = "done" =>
        LET idx == ValidIndices(cr.raw, cr.tolerance, 1)
        IN  /\ Len(cr.out) = cr.n
            /\ Len(idx) >= cr.n
            /\ \A j \in 1..cr.n : \A c \in 1..3 :
                  /\ 0 <= cr.out[j][c] /\ cr.out[j][c] <= One
                  /\ cr.out[j][c] = clip(cr.raw[idx[j]][c])

\* C4 witness: a return with the first colour drawn invalid, more valid
\* colours than asked for, and a returned colour that was clipped.
C4_Witness ==
    /\ cr.pc = "done" /\ cr.n >= 2
    /\ Len(cr.rgb) > cr.n
    /\ ~IsValid(cr.raw[1], cr.tolerance)
    /\ \E j \in 1..cr.n : cr.out[j] \notin {cr.raw[i] : i \in 1..Len(cr.raw)}

RECURSIVE Pow2(_)
Pow2(k) == IF k = 0 THEN 1 ELSE 2 * Pow2(k - 1)

\* C6: the loop of color_random terminates.  The factor is 6 at the first
\* attempt and doubles after each; attempt k draws n * 6 * 2^(k-1) points from
\* the seed of the call; and the loop never comes to its last followed
\* attempt with fewer than n valid colours, so it is left after at most
\* MaxAttempts attempts.
C6_Terminates ==
    cr.pc \in {"loop", "done"} =>
        /\ cr.factor = 6 * Pow2(cr.attempts)
        /\ cr.attempts > 0 =>
              /\ Len(cr.raw) = cr.n * 6 * Pow2(cr.attempts - 1)
              /\ cr.colorspace = "rgb" =>
                    \A i \in 1..Len(cr.raw) : cr.raw[i] = Point(3, i - 1, broadcast_to(cr.seed, 3))
        /\ cr.pc = "loop" /\ Len(cr.rgb) < cr.n => cr.attempts < MaxAttempts

\* C6 witness: a call that returned after its first attempt had failed.
C6_Witness ==
    cr.pc = "done" /\ cr.attempts = 2 /\ cr.n > 0

(***************************************************************************)
(* Claims about a session of calls (SpecSession).                          *)
(***************************************************************************)
IsColormapCall(c) == c.fn = "label_colormap"

SameOutcome(a, b) ==
    /\ a.ok = b.ok
    /\ a.err = b.err
    /\ a.ok => a.val = b.val

\* C11: rebuilding is deterministic and stateless.  Any two calls of
\* label_colormap of a session with the same (num_colors, seed) have the same
\* colours and control points, whatever calls of _low_discrepancy,
\* _color_random or label_colormap are made before or between them; each has
\* the outcome of the same call made alone on the arrays as imported; and
\* the module's arrays are, after every call, as they were imported.
C11_Stateless ==
    /\ session.module = Module0
    /\ \A i \in 1..Len(session.calls) :
            LET c == session.calls[i]
            IN  IsColormapCall(c) =>
                    SameOutcome(c.out, label_colormap(c.args.num_colors, c.args.seed))
    /\ \A i, j \in 1..Len(session.calls) :
            LET c == session.calls[i]
                d == session.calls[j]
            IN  IsColormapCall(c) /\ IsColormapCall(d) /\ c.args = d.args =>
                    SameOutcome(c.out, d.out)

\* C11 witness: label_colormap(3, 0.25) built, then _color_random called,
\* then label_colormap(3, 0.25) built again: three colours both times, the
\* same ones, the second of them opaque.
C11_Witness ==
    /\ Len(session.calls) = 3
    /\ IsColormapCall(session.calls[1]) /\ IsColormapCall(session.calls[3])
    /\ session.calls[2].fn = "color_random"
    /\ session.calls[1].args = [num_colors |-> 3, seed |-> <<Dec(25)>>]
    /\ session.calls[3].args = session.calls[1].args
    /\ session.calls[1].out.ok
    /\ Len(session.calls[1].out.val.colors) = 3
    /\ session.calls[3].out.val.colors = session.calls[1].out.val.colors
    /\ session.calls[3].out.val.controls = session.calls[1].out.val.controls
    /\ session.calls[1].out.val.colors[2][4] = One

(***************************************************************************)
(* Claims about themify_icons (SpecIcons).                                 *)
(***************************************************************************)
\* The SVG files found in a folder
SvgFiles(folder) == {f \in folder : endswith_svg(f)}

Themes == {icons.palettes[t] : t \in 1..Len(icons.palettes)}

\* C12, as stated: themify_icons creates, for every theme of palettes, one
\* themed file for every SVG file found in the folder given by svg_path
\* (the default folder only when svg_path is not given), each made from that
\* file, and returns exactly the list of the paths generated.
C12_Original ==
    icons.pc \in {"done", "raised"} =>
        LET found == SvgFiles(icons.disk[icons.svg_path])
            expected == {<<t, f>> : t \in Themes, f \in found}
        IN  /\ icons.pc = "done"
            /\ {<<w.theme, w.name>> : w \in icons.written} = expected
            /\ \A w \in icons.written : w.from = <<icons.svg_path, w.name>>
            /\ {icons.files[k] : k \in 1..Len(icons.files)} = expected
            /\ Len(icons.files) = Cardinality(expected)

\* C12, what the code does when it returns: the folder listed and read is
\* always the default one, whatever svg_path; every path returned was
\* written, from the file <stem>.svg of the default folder.
C12_DefaultFolderOnly ==
    icons.pc = "done" =>
        /\ {<<w.theme, w.name>> : w \in icons.written}
                = {icons.files[k] : k \in 1..Len(icons.files)}
        /\ \A w \in icons.written :
                /\ w.from = <<SVGPATH, w.name>>
                /\ w.theme \in Themes
                /\ \E f \in SvgFiles(icons.disk[SVGPATH]) :
                        w.name = replace_svg(f) \o <<".svg">>
        /\ \A t \in Themes, f \in SvgFiles(icons.disk[SVGPATH]) :
                \E w \in icons.written :
                    w.theme = t /\ w.name = replace_svg(f) \o <<".svg">>

\* C12: a call with a folder of the caller's holding plus.svg while the
\* default folder holds menu.svg returned the themed menu.svg only.
C12_CustomFolderIgnored ==
    /\ icons.pc = "done"
    /\ icons.svg_path = "custom"
    /\ icons.disk.custom = {<<"plus", ".svg">>}
    /\ icons.disk.icons = {<<"menu", ".svg">>}
    /\ icons.palettes = <<"dark">>
    /\ icons.files = << <<"dark", <<"menu", ".svg">> >> >>

(***************************************************************************)
(* Claims about build_pyqt_resources (SpecRcc).                            *)
(***************************************************************************)
\* The call went past its guard and has ended.
RccEnded ==
    \/ rcc.pc = "raised"
    \/ rcc.pc = "returned" /\ rcc.converted # ""

\* An executable of this name is found on the search path.
Found(b) == which(b, SearchPath(rcc.os_name), rcc.dirs) # ""

\* The candidates in the order claimed, and those of them that are found.
C13_Order == <<"pyrcc5", "pyside2-rcc">>
FoundInOrder == SelectSeq(C13_Order, Found)

UpdateFrames ==
    {k \in 1..Len(refresh.stack) : refresh.stack[k].fn = "_update"}

\* What one refresh is to do with the node: set_data with the current
\* slice, then update.
CurrentSlice == slice_image(refresh.image, refresh.indices)
ExpectedEvents == << <<"set_data", CurrentSlice>>, <<"update">> >>

\* C14, the part that holds in every state: no error, at most four frames
\* and two of _update, the node has seen a prefix of set_data-then-update,
\* and whenever no call is under way both flags are false and, once a
\* refresh has been made, the node has seen both events and holds the slice.
C14_Safe ==
    /\ refresh.err = ""
    /\ Len(refresh.stack) <= 4
    /\ Cardinality(UpdateFrames) <= 2
    /\ refresh.events = SubSeq(ExpectedEvents, 1, Len(refresh.events))
    /\ refresh.stack = <<>> =>
            /\ ~refresh.need_display_update
            /\ ~refresh.need_visual_update
            /\ refresh.done > 0 =>
                    refresh.events = ExpectedEvents /\ refresh.data = CurrentSlice

\* C14: the refresh protocol.  From both flags false, a call of _refresh
\* comes to an end, with _update never more than two deep; it calls the
\* node's set_data exactly once, with the current slice, and then the
\* node's update exactly once; and it leaves both flags false.  This holds
\* for every _refresh of a sequence of them.
C14_RefreshProtocol ==
    /\ []C14_Safe
    /\ (refresh.stack # <<>>) ~> (refresh.stack = <<>>)

\* C14 witness: a second _refresh has ended, on the index 5 of an image of
\* two rows: the second row was pushed to the node, and then the node
\* updated.
C14_Witness ==
    /\ refresh.done = 2
    /\ refresh.stack = <<>>
    /\ Len(refresh.image) = 2
    /\ refresh.indices = <<At(5), All>>
    /\ refresh.data = <<refresh.image[2]>>
    /\ refresh.events = << <<"set_data", <<refresh.image[2]>> >>, <<"update">> >>
    /\ ~refresh.need_display_update /\ ~refresh.need_visual_update

=============================================================================
